---- MODULE Spec2Model ----
(***************************************************************************)
(* Model of fastai/tabular/transform.py: the TabularProc transforms        *)
(* Categorify, FillMissing, Normalize and RemoveMinVariance, each with its *)
(* fit-and-apply path (apply_train) and its apply-only path (apply_test).  *)
(*                                                                         *)
(* A DataFrame is a function from column names to columns; a column is a   *)
(* sequence of cells.  A cell is NaN, a number Num(n, d) (the rational     *)
(* n/d in lowest terms), a boolean Bool(b), or the symbolic quotient       *)
(* Standardized(x, mean, std) that Normalize produces.  The attributes an  *)
(* instance gets in apply_train (na_dict, categories, means, stds,         *)
(* cols_to_drop) are the keys of `fitted`: before the first apply_train    *)
(* the attribute does not exist and reading it raises AttributeError.      *)
(***************************************************************************)
EXTENDS Integers, Sequences, FiniteSets, TLC

VARIABLES
    proc,        \* the instance: its class and its scalar dataclass fields
    cat_names,   \* TabularProc.cat_names (a list shared by reference, mutated)
    cont_names,  \* TabularProc.cont_names
    fitted,      \* attributes created by apply_train, keyed by attribute name
    ctor,        \* as constructed: cat_names then, and the columns of every split
    df_in,       \* the DataFrame argument of the last call, before the call
    df,          \* the same DataFrame after the call (mutated in place)
    dtype,       \* categorical dtype of df's columns: column |-> categories
    last,        \* "init", "apply_train" or "apply_test": the path last run
    was_fit,     \* whether the instance had fitted state when that call began
    err,         \* "none" or the exception the last call raised
    train_na,    \* FillMissing: the continuous columns of the last train split
                 \* that held a missing value
    train_err,   \* "none" or the exception the last apply_train raised
    calls,       \* the methods the last call entered, outermost first
    stdout,      \* what the last call printed
    train_split  \* the last train split: its columns before and after
                 \* apply_train, and whether every name of cat_names and
                 \* cont_names was a column of it before

vars == <<proc, cat_names, cont_names, fitted, ctor, df_in, df, dtype,
          last, was_fit, err, train_na, train_err, calls, stdout, train_split>>

-----------------------------------------------------------------------------
(* Bounds *)

\* a DataFrame handed to a transform has at most MaxCells cells
MaxCells == 4
\* RemoveMinVariance is also fed DataFrames repeated MaxTile times (['a'] * 100)
MaxTile == 6

-----------------------------------------------------------------------------
(* Cells and arithmetic *)

NaN == [na |-> TRUE]

Abs(i) == IF i < 0 THEN -i ELSE i

RECURSIVE Gcd(_, _)
Gcd(a, b) == IF b = 0 THEN a ELSE Gcd(b, a % b)

\* the rational n/d (d # 0) in lowest terms with a positive denominator
Num(n, d) ==
    LET g == Gcd(Abs(n), Abs(d))
        s == IF d < 0 THEN -1 ELSE 1
    IN  [na |-> FALSE, num |-> s * (n \div g), den |-> s * (d \div g)]

Bool(b) == [na |-> FALSE, bool |-> b]

RAdd(a, b) == Num(a.num * b.den + b.num * a.den, a.den * b.den)
RSub(a, b) == Num(a.num * b.den - b.num * a.den, a.den * b.den)
RMul(a, b) == Num(a.num * b.num, a.den * b.den)
RDivInt(a, k) == Num(a.num, a.den * k)
RLess(a, b) == a.num * b.den < b.num * a.den

Range(s) == {s[i] : i \in DOMAIN s}

\* d[k] = v (Python dict / DataFrame column assignment)
Put(f, k, v) == [x \in (DOMAIN f) \cup {k} |-> IF x = k THEN v ELSE f[x]]

\* pd.isnull on a cell
isnull(c) == c.na

\* Series.dropna
dropna(col) == SelectSeq(col, LAMBDA c : ~isnull(c))

\* Series.fillna(filler)
fillna(col, filler) == [i \in DOMAIN col |-> IF isnull(col[i]) THEN filler ELSE col[i]]

\* pd.isnull(Series).sum() is truthy
has_null(col) == \E i \in DOMAIN col : isnull(col[i])

\* number of cells of col equal to v
Count(col, v) == Cardinality({i \in DOMAIN col : col[i] = v})

\* the sum of the rationals term[v], v in labels
RECURSIVE SumOver(_, _)
SumOver(labels, term) ==
    IF labels = {} THEN Num(0, 1)
    ELSE LET v == CHOOSE w \in labels : TRUE
         IN  RAdd(term[v], SumOver(labels \ {v}, term))

\* the sum of term[x] over the cells x of a column without NaN, taken label
\* by label (each distinct value times the number of its rows)
SumSeq(s, term) ==
    SumOver(Range(s), [v \in Range(s) |-> RMul(Num(Count(s, v), 1), term[v])])

\* Series.median(): NaN are skipped; NaN when nothing is left
median(col) ==
    LET s == SortSeq(dropna(col), RLess)
        n == Len(s)
    IN  IF n = 0 THEN NaN
        ELSE IF n % 2 = 1 THEN s[(n + 1) \div 2]
        ELSE RDivInt(RAdd(s[n \div 2], s[n \div 2 + 1]), 2)

\* Series.mean(): NaN are skipped; NaN when nothing is left
mean(col) ==
    LET s == dropna(col)
    IN  IF Len(s) = 0 THEN NaN ELSE RDivInt(SumSeq(s, [x \in Range(s) |-> x]), Len(s))

\* Series.var() (ddof = 1): NaN are skipped; NaN with fewer than two values
var(col) ==
    LET s == dropna(col)
        n == Len(s)
        m == RDivInt(SumSeq(s, [x \in Range(s) |-> x]), n)
    IN  IF n < 2 THEN NaN
        ELSE RDivInt(SumSeq(s, [x \in Range(s) |-> RMul(RSub(x, m), RSub(x, m))]), n - 1)

\* Series.dropna().value_counts().idxmax(): the labels with the highest
\* count; which of several tied labels comes first depends on the sort
\* pandas uses, so every tied label is a possible result
idxmax_outcomes(col) ==
    LET s == dropna(col)
    IN  {v \in Range(s) : \A w \in Range(s) : Count(s, w) <= Count(s, v)}

-----------------------------------------------------------------------------
(* FillMissing *)

na_name(name) == name \o "_na"

\* the loop body of FillMissing.apply_train, were the indicator name appended
\* to cat_names without looking whether it is there
FillMissing_train_step_appending(p, name, st) ==
    IF st.err # "none" \/ ~has_null(st.df[name]) THEN {st}
    ELSE
      LET df1 == IF p.add_col
                 THEN Put(st.df, na_name(name),
                          [i \in DOMAIN st.df[name] |-> Bool(isnull(st.df[name][i]))])
                 ELSE st.df
          cat1 == IF p.add_col THEN Append(st.cat_names, na_name(name))
                  ELSE st.cat_names
          fillers == IF p.fill_strategy = "MEDIAN" THEN {median(df1[name])}
                     ELSE IF p.fill_strategy = "CONSTANT" THEN {p.fill_val}
                     ELSE idxmax_outcomes(df1[name])
      IN  IF fillers = {}
          THEN {[st EXCEPT !.df = df1, !.cat_names = cat1, !.err = "ValueError"]}
          ELSE {[st EXCEPT !.df = Put(df1, name, fillna(df1[name], filler)),
                           !.cat_names = cat1,
                           !.na_dict = Put(st.na_dict, name, filler)]
                : filler \in fillers}

\* the body of the loop of FillMissing.apply_train for one name; st carries
\* df, cat_names, na_dict and the exception raised so far
FillMissing_train_step(p, name, st) ==
    IF st.err # "none" THEN {st}
    ELSE IF ~has_null(st.df[name]) THEN {st}
    ELSE
      LET df1 == IF p.add_col
                 THEN Put(st.df, na_name(name),
                          [i \in DOMAIN st.df[name] |-> Bool(isnull(st.df[name][i]))])
                 ELSE st.df
          cat1 == IF p.add_col /\ na_name(name) \notin Range(st.cat_names)
                  THEN Append(st.cat_names, na_name(name))
                  ELSE st.cat_names
          fillers == IF p.fill_strategy = "MEDIAN" THEN {median(df1[name])}
                     ELSE IF p.fill_strategy = "CONSTANT" THEN {p.fill_val}
                     ELSE idxmax_outcomes(df1[name])
      IN  IF fillers = {}
          THEN {[st EXCEPT !.df = df1, !.cat_names = cat1, !.err = "ValueError"]}
          ELSE {[st EXCEPT !.df = Put(df1, name, fillna(df1[name], filler)),
                           !.cat_names = cat1,
                           !.na_dict = Put(st.na_dict, name, filler)]
                : filler \in fillers}

RECURSIVE FillMissing_train_loop(_, _, _)
FillMissing_train_loop(p, names, sts) ==
    IF names = <<>> THEN sts
    ELSE FillMissing_train_loop(p, Tail(names),
             UNION {FillMissing_train_step(p, Head(names), st) : st \in sts})

\* FillMissing.apply_train(df): the possible outcomes
FillMissing_apply_train(p, cats, conts, d) ==
    {[df |-> st.df, dtype |-> <<>>, cat_names |-> st.cat_names,
      fitted |-> [na_dict |-> st.na_dict], err |-> st.err]
     : st \in FillMissing_train_loop(p, conts,
                 {[df |-> d, cat_names |-> cats, na_dict |-> <<>>, err |-> "none"]})}

\* the loop body of FillMissing.apply_test, were the indicator taken after
\* the missing values are filled
FillMissing_test_step_indicator_after_fill(p, fit, name, st) ==
    IF st.err # "none" THEN st
    ELSE IF "na_dict" \notin DOMAIN fit THEN [st EXCEPT !.err = "AttributeError"]
    ELSE IF name \notin DOMAIN fit.na_dict THEN st
    ELSE
      LET df1 == Put(st.df, name, fillna(st.df[name], fit.na_dict[name]))
          df2 == IF p.add_col
                 THEN Put(df1, na_name(name),
                          [i \in DOMAIN df1[name] |-> Bool(isnull(df1[name][i]))])
                 ELSE df1
          cat1 == IF p.add_col /\ na_name(name) \notin Range(st.cat_names)
                  THEN Append(st.cat_names, na_name(name))
                  ELSE st.cat_names
      IN  [st EXCEPT !.df = df2, !.cat_names = cat1]

\* the loop body of FillMissing.apply_test, were the indicator added only
\* where the split at hand has a missing value
FillMissing_test_step_when_missing(p, fit, name, st) ==
    IF st.err # "none" THEN st
    ELSE IF "na_dict" \notin DOMAIN fit THEN [st EXCEPT !.err = "AttributeError"]
    ELSE IF name \notin DOMAIN fit.na_dict THEN st
    ELSE
      LET add == p.add_col /\ has_null(st.df[name])
          df1 == IF add
                 THEN Put(st.df, na_name(name),
                          [i \in DOMAIN st.df[name] |-> Bool(isnull(st.df[name][i]))])
                 ELSE st.df
          cat1 == IF add /\ na_name(name) \notin Range(st.cat_names)
                  THEN Append(st.cat_names, na_name(name))
                  ELSE st.cat_names
      IN  [st EXCEPT !.df = Put(df1, name, fillna(df1[name], fit.na_dict[name])),
                     !.cat_names = cat1]

\* the body of the loop of FillMissing.apply_test for one name
FillMissing_test_step(p, fit, name, st) ==
    IF st.err # "none" THEN st
    ELSE IF "na_dict" \notin DOMAIN fit THEN [st EXCEPT !.err = "AttributeError"]
    ELSE IF name \notin DOMAIN fit.na_dict THEN st
    ELSE
      LET df1 == IF p.add_col
                 THEN Put(st.df, na_name(name),
                          [i \in DOMAIN st.df[name] |-> Bool(isnull(st.df[name][i]))])
                 ELSE st.df
          cat1 == IF p.add_col /\ na_name(name) \notin Range(st.cat_names)
                  THEN Append(st.cat_names, na_name(name))
                  ELSE st.cat_names
      IN  [st EXCEPT !.df = Put(df1, name, fillna(df1[name], fit.na_dict[name])),
                     !.cat_names = cat1]

RECURSIVE FillMissing_test_loop(_, _, _, _)
FillMissing_test_loop(p, fit, names, st) ==
    IF names = <<>> THEN st
    ELSE FillMissing_test_loop(p, fit, Tail(names),
                               FillMissing_test_step(p, fit, Head(names), st))

\* FillMissing.apply_test, were it not overridden: TabularProc.apply_test
\* calls apply_train
FillMissing_apply_test_inherited(p, fit, cats, conts, d) ==
    FillMissing_apply_train(p, cats, conts, d)

\* FillMissing.apply_test(df)
FillMissing_apply_test(p, fit, cats, conts, d) ==
    LET st == FillMissing_test_loop(p, fit, conts,
                  [df |-> d, cat_names |-> cats, err |-> "none"])
    IN  {[df |-> st.df, dtype |-> <<>>, cat_names |-> st.cat_names,
          fitted |-> fit, err |-> st.err]}

-----------------------------------------------------------------------------
(* Categorify *)

RECURSIVE SetToSeq(_)
SetToSeq(S) == IF S = {} THEN <<>>
               ELSE LET x == CHOOSE y \in S : TRUE IN <<x>> \o SetToSeq(S \ {x})

\* Series.astype('category').cat.as_ordered().cat.categories: the distinct
\* non-missing values in ascending order
categories_of(col) == SortSeq(SetToSeq(Range(dropna(col))), RLess)

\* Categorical, were values outside the categories kept
Categorical_keeping_unseen(col, cats) == col

\* pd.Categorical(col, categories=cats, ordered=True): a value outside cats
\* becomes the missing category
Categorical(col, cats) ==
    [i \in DOMAIN col |-> IF col[i] \in Range(cats) THEN col[i] ELSE NaN]

RECURSIVE Categorify_train_loop(_, _)
Categorify_train_loop(names, st) ==
    IF names = <<>> THEN st
    ELSE LET n == Head(names)
             cats == categories_of(st.df[n])
         IN  Categorify_train_loop(Tail(names),
                 [st EXCEPT !.dtype = Put(st.dtype, n, cats),
                            !.categories = Put(st.categories, n, cats)])

\* Categorify.apply_train, were self.categories created only on reaching the
\* first categorical column
Categorify_apply_train_lazy(p, cats, conts, d) ==
    LET st == Categorify_train_loop(cats, [df |-> d, dtype |-> <<>>, categories |-> <<>>])
    IN  {[df |-> st.df, dtype |-> st.dtype, cat_names |-> cats,
          fitted |-> IF cats = <<>> THEN <<>> ELSE [categories |-> st.categories],
          err |-> "none"]}

\* Categorify.apply_train(df)
Categorify_apply_train(p, cats, conts, d) ==
    LET st == Categorify_train_loop(cats, [df |-> d, dtype |-> <<>>, categories |-> <<>>])
    IN  {[df |-> st.df, dtype |-> st.dtype, cat_names |-> cats,
          fitted |-> [categories |-> st.categories], err |-> "none"]}

RECURSIVE Categorify_test_loop(_, _, _)
Categorify_test_loop(fit, names, st) ==
    IF names = <<>> \/ st.err # "none" THEN st
    ELSE LET n == Head(names) IN
         IF "categories" \notin DOMAIN fit THEN [st EXCEPT !.err = "AttributeError"]
         ELSE IF n \notin DOMAIN fit.categories THEN [st EXCEPT !.err = "KeyError"]
         ELSE Categorify_test_loop(fit, Tail(names),
                  [st EXCEPT !.df = Put(st.df, n, Categorical(st.df[n], fit.categories[n])),
                             !.dtype = Put(st.dtype, n, fit.categories[n])])

\* Categorify.apply_test(df)
Categorify_apply_test(p, fit, cats, conts, d) ==
    LET st == Categorify_test_loop(fit, cats, [df |-> d, dtype |-> <<>>, err |-> "none"])
    IN  {[df |-> st.df, dtype |-> st.dtype, cat_names |-> cats,
          fitted |-> fit, err |-> st.err]}

-----------------------------------------------------------------------------
(* Normalize *)

\* Series.std(): the square root of var(), kept symbolic
std(col) == LET v == var(col) IN IF isnull(v) THEN NaN ELSE [na |-> FALSE, sqrt_of |-> v]

\* (x - mean) / (1e-7 + std), kept symbolic; NaN as soon as one operand is
Standardized(x, m, s) ==
    IF isnull(x) \/ isnull(m) \/ isnull(s) THEN NaN
    ELSE [na |-> FALSE, x |-> x, minus |-> m, over_eps_plus |-> s]

standardize(col, m, s) == [i \in DOMAIN col |-> Standardized(col[i], m, s)]

RECURSIVE Normalize_train_loop(_, _)
Normalize_train_loop(names, st) ==
    IF names = <<>> THEN st
    ELSE LET n == Head(names)
             m == mean(st.df[n])
             s == std(st.df[n])
         IN  Normalize_train_loop(Tail(names),
                 [st EXCEPT !.means = Put(st.means, n, m),
                            !.stds = Put(st.stds, n, s),
                            !.df = Put(st.df, n, standardize(st.df[n], m, s))])

\* Normalize.apply_train(df)
Normalize_apply_train(p, cats, conts, d) ==
    LET st == Normalize_train_loop(conts, [df |-> d, means |-> <<>>, stds |-> <<>>])
    IN  {[df |-> st.df, dtype |-> <<>>, cat_names |-> cats,
          fitted |-> [means |-> st.means, stds |-> st.stds], err |-> "none"]}

RECURSIVE Normalize_test_loop(_, _, _)
Normalize_test_loop(fit, names, st) ==
    IF names = <<>> \/ st.err # "none" THEN st
    ELSE LET n == Head(names) IN
         IF "means" \notin DOMAIN fit THEN [st EXCEPT !.err = "AttributeError"]
         ELSE IF n \notin DOMAIN fit.means THEN [st EXCEPT !.err = "KeyError"]
         ELSE Normalize_test_loop(fit, Tail(names),
                  [st EXCEPT !.df = Put(st.df, n,
                                 standardize(st.df[n], fit.means[n], fit.stds[n]))])

\* Normalize.apply_test(df)
Normalize_apply_test(p, fit, cats, conts, d) ==
    LET st == Normalize_test_loop(fit, conts, [df |-> d, err |-> "none"])
    IN  {[df |-> st.df, dtype |-> <<>>, cat_names |-> cats,
          fitted |-> fit, err |-> st.err]}

-----------------------------------------------------------------------------
(* RemoveMinVariance *)

\* get_freq_ratio(column): value_counts(normalize=True) leaves NaN out and
\* sorts the relative frequencies in descending order; unpacking its first
\* two entries raises ValueError when there is none
get_freq_ratio(col) ==
    LET s == dropna(col)
        labels == Range(s)
        top == CHOOSE v \in labels : \A w \in labels : Count(s, w) <= Count(s, v)
        rest == labels \ {top}
        second == CHOOSE v \in rest : \A w \in rest : Count(s, w) <= Count(s, v)
    IN  IF Cardinality(labels) = 1 THEN [err |-> "none", inf |-> TRUE]
        ELSE IF labels = {} THEN [err |-> "ValueError", inf |-> FALSE]
        ELSE [err |-> "none", inf |-> FALSE,
              val |-> RSub(Num(Count(s, top), Len(s)), Num(Count(s, second), Len(s)))]

\* get_percent_of_uniq_vals, were the quotient not multiplied by 100
get_percent_of_uniq_vals_as_fraction(col) == Num(Cardinality(Range(col)), Len(col))

\* get_percent_of_uniq_vals(column): Series.unique() keeps NaN as a value
get_percent_of_uniq_vals(col) == Num(Cardinality(Range(col)) * 100, Len(col))

\* the first loop of apply_train, were the append to cols_to_drop inside the
\* branch that prints
RECURSIVE RemoveMinVariance_cont_loop_quiet_keeps(_, _, _)
RemoveMinVariance_cont_loop_quiet_keeps(p, names, st) ==
    IF names = <<>> \/ st.err # "none" THEN st
    ELSE LET n == Head(names)
             n_variance == var(st.df[n])
         IN  IF RLess(p.check_sample, Num(1, 1))
             THEN [st EXCEPT !.err = "NameError"]
             ELSE RemoveMinVariance_cont_loop_quiet_keeps(p, Tail(names),
                    IF ~isnull(n_variance) /\ RLess(n_variance, p.min_var) /\ p.verbose
                    THEN [st EXCEPT
                            !.out = IF p.remove_cols
                                    THEN Append(@, <<"Dropping column", n>>)
                                    ELSE Append(@, <<"Attention", n>>),
                            !.cols_to_drop = IF p.remove_cols THEN Append(@, n) ELSE @]
                    ELSE st)

\* the first loop of RemoveMinVariance.apply_train, over cont_names
RECURSIVE RemoveMinVariance_cont_loop(_, _, _)
RemoveMinVariance_cont_loop(p, names, st) ==
    IF names = <<>> \/ st.err # "none" THEN st
    ELSE LET n == Head(names)
             n_variance == var(st.df[n])
         IN  IF RLess(p.check_sample, Num(1, 1))
             THEN [st EXCEPT !.err = "NameError"]
             ELSE RemoveMinVariance_cont_loop(p, Tail(names),
                    IF ~isnull(n_variance) /\ RLess(n_variance, p.min_var)
                    THEN [st EXCEPT
                            !.out = IF ~p.verbose THEN @
                                    ELSE IF p.remove_cols
                                    THEN Append(@, <<"Dropping column", n>>)
                                    ELSE Append(@, <<"Attention", n>>),
                            !.cols_to_drop = IF p.remove_cols THEN Append(@, n) ELSE @]
                    ELSE st)

\* the second loop of apply_train, were one of the two conditions enough
RECURSIVE RemoveMinVariance_cat_loop_either(_, _, _)
RemoveMinVariance_cat_loop_either(p, names, st) ==
    IF names = <<>> \/ st.err # "none" THEN st
    ELSE LET n == Head(names)
             fr == get_freq_ratio(st.df[n])
         IN  IF fr.err # "none" THEN [st EXCEPT !.err = fr.err]
             ELSE RemoveMinVariance_cat_loop_either(p, Tail(names),
                    IF \/ (fr.inf \/ RLess(p.freq_cut, fr.val))
                       \/ RLess(get_percent_of_uniq_vals(st.df[n]), p.uniq_cut)
                    THEN [st EXCEPT
                            !.out = IF p.verbose
                                    THEN Append(@, <<"Near-zero-variance">>) ELSE @,
                            !.cols_to_drop = IF p.remove_cols THEN Append(@, n) ELSE @]
                    ELSE st)

\* the second loop of RemoveMinVariance.apply_train, over cat_names
RECURSIVE RemoveMinVariance_cat_loop(_, _, _)
RemoveMinVariance_cat_loop(p, names, st) ==
    IF names = <<>> \/ st.err # "none" THEN st
    ELSE LET n == Head(names)
             fr == get_freq_ratio(st.df[n])
         IN  IF fr.err # "none" THEN [st EXCEPT !.err = fr.err]
             ELSE RemoveMinVariance_cat_loop(p, Tail(names),
                    IF /\ (fr.inf \/ RLess(p.freq_cut, fr.val))
                       /\ RLess(get_percent_of_uniq_vals(st.df[n]), p.uniq_cut)
                    THEN [st EXCEPT
                            !.out = IF p.verbose
                                    THEN Append(@, <<"Near-zero-variance">>) ELSE @,
                            !.cols_to_drop = IF p.remove_cols THEN Append(@, n) ELSE @]
                    ELSE st)

\* DataFrame.drop(columns=cols, inplace=True): KeyError when a label is absent
drop(st, cols) ==
    IF st.err # "none" THEN st
    ELSE IF ~(Range(cols) \subseteq DOMAIN st.df) THEN [st EXCEPT !.err = "KeyError"]
    ELSE [st EXCEPT !.df = [c \in (DOMAIN st.df) \ Range(cols) |-> st.df[c]]]

\* RemoveMinVariance.apply_train(df)
RemoveMinVariance_apply_train(p, cats, conts, d) ==
    LET st0 == [df |-> d, cols_to_drop |-> <<>>, err |-> "none", out |-> <<>>]
        st1 == RemoveMinVariance_cont_loop(p, conts, st0)
        st2 == RemoveMinVariance_cat_loop(p, cats, st1)
        st3 == drop(st2, st2.cols_to_drop)
    IN  {[df |-> st3.df, dtype |-> <<>>, cat_names |-> cats,
          fitted |-> [cols_to_drop |-> st3.cols_to_drop], err |-> st3.err,
          out |-> st3.out]}

\* RemoveMinVariance.apply_test, were the columns to drop worked out again
\* from the split at hand
RemoveMinVariance_apply_test_recomputing(p, fit, cats, conts, d) ==
    IF "cols_to_drop" \notin DOMAIN fit
    THEN {[df |-> d, dtype |-> <<>>, cat_names |-> cats, fitted |-> fit,
           err |-> "AttributeError"]}
    ELSE {[r EXCEPT !.fitted = fit]
          : r \in RemoveMinVariance_apply_train(p, cats, conts, d)}

\* RemoveMinVariance.apply_test(df)
RemoveMinVariance_apply_test(p, fit, cats, conts, d) ==
    LET st == IF "cols_to_drop" \notin DOMAIN fit
              THEN [df |-> d, err |-> "AttributeError"]
              ELSE drop([df |-> d, err |-> "none"], fit.cols_to_drop)
    IN  {[df |-> st.df, dtype |-> <<>>, cat_names |-> cats,
          fitted |-> fit, err |-> st.err]}

-----------------------------------------------------------------------------
(* TabularProc *)

\* the methods an outcome records as entered below the one called
Nested(r) == IF "calls" \in DOMAIN r THEN r.calls ELSE <<>>

\* the outcome r of a method reached through a call of method m
Nest(m, r) ==
    [k \in DOMAIN r \cup {"calls"} |->
        IF k = "calls" THEN <<m>> \o Nested(r) ELSE r[k]]

\* TabularProc.apply_train(df): raise NotImplementedError
TabularProc_apply_train(p, fit, cats, conts, d) ==
    {[df |-> d, dtype |-> <<>>, cat_names |-> cats, fitted |-> fit,
      err |-> "NotImplementedError"]}

\* the apply_train of the instance's class
apply_train(p, fit, cats, conts, d) ==
    CASE p.cls = "TabularProc" -> TabularProc_apply_train(p, fit, cats, conts, d)
      [] p.cls = "Categorify" -> Categorify_apply_train(p, cats, conts, d)
      [] p.cls = "FillMissing" -> FillMissing_apply_train(p, cats, conts, d)
      [] p.cls = "Normalize" -> Normalize_apply_train(p, cats, conts, d)
      [] p.cls = "RemoveMinVariance" -> RemoveMinVariance_apply_train(p, cats, conts, d)

\* TabularProc.apply_test(df): self.apply_train(df), the apply_train of the
\* instance's class
TabularProc_apply_test(p, fit, cats, conts, d) ==
    {Nest("apply_train", r) : r \in apply_train(p, fit, cats, conts, d)}

\* the apply_test of the instance's class (the four transforms override the
\* base one)
apply_test(p, fit, cats, conts, d) ==
    CASE p.cls = "TabularProc" -> TabularProc_apply_test(p, fit, cats, conts, d)
      [] p.cls = "Categorify" -> Categorify_apply_test(p, fit, cats, conts, d)
      [] p.cls = "FillMissing" -> FillMissing_apply_test(p, fit, cats, conts, d)
      [] p.cls = "Normalize" -> Normalize_apply_test(p, fit, cats, conts, d)
      [] p.cls = "RemoveMinVariance" -> RemoveMinVariance_apply_test(p, fit, cats, conts, d)

-----------------------------------------------------------------------------
(* Instances and inputs *)

Names == {"A", "A_na"}

\* the name lists of at most two names
NameLists ==
    {<<>>} \cup {<<a>> : a \in Names}
           \cup {<<a, b>> : a \in Names, b \in Names}

\* cat_names and cont_names at construction: duplicate-free, disjoint, at
\* most two names in all
NameConfigs ==
    {nc \in [cat : NameLists, cont : NameLists] :
        /\ Cardinality(Range(nc.cat)) = Len(nc.cat)
        /\ Cardinality(Range(nc.cont)) = Len(nc.cont)
        /\ Range(nc.cat) \cap Range(nc.cont) = {}
        /\ Len(nc.cat) + Len(nc.cont) <= 2}

FillStrategy == {"MEDIAN", "COMMON", "CONSTANT"}

Procs ==
    {[cls |-> "Categorify"], [cls |-> "Normalize"]}
    \cup {[cls |-> "FillMissing", fill_strategy |-> fs, add_col |-> ac,
           fill_val |-> Num(0, 1)] : fs \in FillStrategy, ac \in BOOLEAN}
    \cup {[cls |-> "RemoveMinVariance", min_var |-> Num(1, 100000),
           freq_cut |-> Num(95, 5), uniq_cut |-> Num(10, 1),
           remove_cols |-> rc, check_sample |-> cs, verbose |-> TRUE]
          : rc \in BOOLEAN, cs \in {Num(1, 1)}}

CellValues == {NaN, Num(0, 1), Num(1, 1)}

\* numbers in ascending order, missing values last
CellLeq(a, b) == isnull(b) \/ (~isnull(a) /\ ~RLess(b, a))

\* the columns of n rows.  Rows are exchangeable for every transform here
\* (each statistic ignores the order of the rows, each rewrite is row by
\* row), so a column is drawn in one order only
ColumnsOfLen(n) ==
    {s \in [1..n -> CellValues] : \A i \in 1..(n - 1) : CellLeq(s[i], s[i + 1])}

\* the DataFrames over each set of columns, with at least one row and at
\* most MaxCells cells
Frames ==
    [cols \in SUBSET Names |->
        IF cols = {} THEN {<<>>}
        ELSE UNION {[cols -> ColumnsOfLen(n)]
                    : n \in 1..(MaxCells \div Cardinality(cols))}]

RECURSIVE Repeat(_, _)
Repeat(col, k) == IF k = 0 THEN <<>> ELSE col \o Repeat(col, k - 1)

\* a DataFrame with its rows repeated k times
Tile(d, k) == [c \in DOMAIN d |-> Repeat(d[c], k)]

\* the same DataFrames and their MaxTile-fold repetitions
LongFrames ==
    [cols \in SUBSET Names |-> Frames[cols] \cup {Tile(d, MaxTile) : d \in Frames[cols]}]

\* the splits an instance is called with
Splits(p, cols) ==
    IF p.cls = "RemoveMinVariance" THEN LongFrames[cols] ELSE Frames[cols]

null_columns(d) == {c \in DOMAIN d : has_null(d[c])}

-----------------------------------------------------------------------------
(* The state machine *)

InitWith(procs) ==
    /\ proc \in procs
    /\ \E nc \in NameConfigs :
          /\ cat_names = nc.cat
          /\ cont_names = nc.cont
          /\ ctor = [cat_names |-> nc.cat,
                     columns |-> Range(nc.cat) \cup Range(nc.cont)]
    /\ fitted = <<>>
    /\ df_in = <<>>
    /\ df = <<>>
    /\ dtype = <<>>
    /\ last = "init"
    /\ was_fit = FALSE
    /\ err = "none"
    /\ train_na = {}
    /\ train_err = "none"
    /\ calls = <<>>
    /\ stdout = <<>>
    /\ train_split = <<>>

Init == InitWith(Procs)

\* the effect of a call on the split d whose outcome is r
Returns(path, d, r) ==
    /\ df_in' = d
    /\ df' = r.df
    /\ dtype' = r.dtype
    /\ cat_names' = r.cat_names
    /\ fitted' = r.fitted
    /\ err' = r.err
    /\ last' = path
    /\ was_fit' = (DOMAIN fitted # {})
    /\ train_na' = IF path = "apply_train" /\ proc.cls = "FillMissing"
                   THEN null_columns(d) \cap Range(cont_names)
                   ELSE train_na
    /\ train_err' = IF path = "apply_train" THEN r.err ELSE train_err
    /\ stdout' = IF "out" \in DOMAIN r THEN r.out ELSE <<>>
    /\ train_split' = IF path = "apply_train"
                      THEN [before |-> DOMAIN d, after |-> DOMAIN r.df,
                            named |-> Range(cat_names) \cup Range(cont_names)
                                         \subseteq DOMAIN d]
                      ELSE train_split
    /\ UNCHANGED <<proc, cont_names, ctor>>

ApplyTrain(cls) ==
    /\ proc.cls = cls
    /\ \E d \in Splits(proc, ctor.columns) :
          \E r \in apply_train(proc, fitted, cat_names, cont_names, d) :
             /\ Returns("apply_train", d, r)
             /\ calls' = <<"apply_train">> \o Nested(r)

ApplyTest(cls) ==
    /\ proc.cls = cls
    /\ \E d \in Splits(proc, ctor.columns) :
          \E r \in apply_test(proc, fitted, cat_names, cont_names, d) :
             /\ Returns("apply_test", d, r)
             /\ calls' = <<"apply_test">> \o Nested(r)

CategorifyApplyTrain == ApplyTrain("Categorify")
CategorifyApplyTest == ApplyTest("Categorify")
FillMissingApplyTrain == ApplyTrain("FillMissing")
FillMissingApplyTest == ApplyTest("FillMissing")
NormalizeApplyTrain == ApplyTrain("Normalize")
NormalizeApplyTest == ApplyTest("Normalize")
RemoveMinVarianceApplyTrain == ApplyTrain("RemoveMinVariance")
RemoveMinVarianceApplyTest == ApplyTest("RemoveMinVariance")

Next ==
    \/ CategorifyApplyTrain
    \/ CategorifyApplyTest
    \/ FillMissingApplyTrain
    \/ FillMissingApplyTest
    \/ NormalizeApplyTrain
    \/ NormalizeApplyTest
    \/ RemoveMinVarianceApplyTrain
    \/ RemoveMinVarianceApplyTest

Spec == Init /\ [][Next]_vars

\* the entry a call of __call__ leaves in calls
call_entry(test) == IF test THEN "__call__(test=True)" ELSE "__call__(test=False)"

\* __call__, were the two paths taken the wrong way round
Call_swapped(test) ==
    LET func == IF test THEN "apply_train" ELSE "apply_test"
    IN  \E d \in Splits(proc, ctor.columns) :
           \E r \in IF test
                     THEN apply_train(proc, fitted, cat_names, cont_names, d)
                     ELSE apply_test(proc, fitted, cat_names, cont_names, d) :
              /\ Returns(func, d, r)
              /\ calls' = <<call_entry(test), func>> \o Nested(r)

\* TabularProc.__call__(df, test): func is apply_test when test is true and
\* apply_train otherwise; func(df)
Call(test) ==
    LET func == IF test THEN "apply_test" ELSE "apply_train"
    IN  \E d \in Splits(proc, ctor.columns) :
           \E r \in IF test
                     THEN apply_test(proc, fitted, cat_names, cont_names, d)
                     ELSE apply_train(proc, fitted, cat_names, cont_names, d) :
              /\ Returns(func, d, r)
              /\ calls' = <<call_entry(test), func>> \o Nested(r)

CallTrain == Call(FALSE)
CallTest == Call(TRUE)

\* instances called through __call__: the base class, which overrides
\* neither path, and two transforms that override both
CallProcs == {[cls |-> "TabularProc"], [cls |-> "Categorify"], [cls |-> "Normalize"]}

NextCall == CallTrain \/ CallTest

SpecCall == InitWith(CallProcs) /\ [][NextCall]_vars

\* one class at a time
InitOf(cls) == Init /\ proc.cls = cls

NextCategorify == CategorifyApplyTrain \/ CategorifyApplyTest
NextFillMissing == FillMissingApplyTrain \/ FillMissingApplyTest
NextNormalize == NormalizeApplyTrain \/ NormalizeApplyTest
NextRemoveMinVariance == RemoveMinVarianceApplyTrain \/ RemoveMinVarianceApplyTest

SpecCategorify == InitOf("Categorify") /\ [][NextCategorify]_vars
SpecFillMissing == InitOf("FillMissing") /\ [][NextFillMissing]_vars
SpecNormalize == InitOf("Normalize") /\ [][NextNormalize]_vars
SpecRemoveMinVariance == InitOf("RemoveMinVariance") /\ [][NextRemoveMinVariance]_vars

\* RemoveMinVariance instances over its other fields: silent ones with
\* remove_cols either way (Procs has the verbose ones), a sub-sampling ratio
\* below 1, and cut-offs that a column of a few rows can be on either side of
RemoveMinVarianceVariants ==
    LET default == [cls |-> "RemoveMinVariance", min_var |-> Num(1, 100000),
                    freq_cut |-> Num(95, 5), uniq_cut |-> Num(10, 1),
                    remove_cols |-> TRUE, check_sample |-> Num(1, 1),
                    verbose |-> TRUE]
    IN  {[default EXCEPT !.verbose = FALSE, !.remove_cols = rc] : rc \in BOOLEAN}
        \cup {[default EXCEPT !.check_sample = Num(1, 2)]}
        \cup {[default EXCEPT !.freq_cut = Num(1, 4), !.uniq_cut = Num(60, 1)]}

SpecRemoveMinVarianceVariants ==
    InitWith(RemoveMinVarianceVariants) /\ [][NextRemoveMinVariance]_vars

-----------------------------------------------------------------------------
(* Properties *)

\* the instance has never run apply_train: it has none of the fitted attributes
Unfit == DOMAIN fitted = {}

IsCls(cls) == proc.cls = cls

\* the last call was this path and returned without raising
Returned(path) == last = path /\ err = "none"

\* column c of the last split, cell by cell, is what cell[before] makes of it
Rewritten(c, cell) ==
    /\ c \in DOMAIN df
    /\ DOMAIN df[c] = DOMAIN df_in[c]
    /\ \A i \in DOMAIN df_in[c] : df[c][i] = cell[df_in[c][i]]

\* column c of the last split is as it was before the call
Untouched(c) == Rewritten(c, [x \in Range(df_in[c]) |-> x])

\* C1: after FillMissing.apply_test, every continuous column recorded in
\* na_dict has its missing rows replaced by the stored fill value and its
\* other rows unchanged
FillNonLeakage ==
    (IsCls("FillMissing") /\ ~Unfit /\ Returned("apply_test")) =>
        \A name \in Range(cont_names) \cap DOMAIN fitted.na_dict :
            Rewritten(name, [x \in Range(df_in[name]) |->
                                IF isnull(x) THEN fitted.na_dict[name] ELSE x])

\* C3: FillMissing.apply_train leaves no missing value in a continuous column
\* that had one, and neither does apply_test after it in those columns
FillLeavesNoMissing ==
    /\ (IsCls("FillMissing") /\ Returned("apply_train")) =>
          \A name \in Range(cont_names) :
              has_null(df_in[name]) => ~has_null(df[name])
    /\ (IsCls("FillMissing") /\ Returned("apply_test") /\ train_err = "none") =>
          \A name \in train_na : ~has_null(df[name])

\* C4: apply_test on an instance that was never fit ends in an error
UnsetStateRaises ==
    (last = "apply_test" /\ ~was_fit) => err # "none"

\* a column that holds exactly one distinct value, in every row
SingleValued(col) == Cardinality(Range(col)) = 1 /\ ~has_null(col)

DefaultThresholds ==
    /\ proc.freq_cut = Num(95, 5)
    /\ proc.uniq_cut = Num(10, 1)
    /\ proc.remove_cols
    /\ proc.check_sample = Num(1, 1)

\* C5: with the default thresholds, apply_train puts every single-valued
\* categorical column on the drop list and removes it, without raising, and
\* apply_test removes it from a later split
SingleValuedDropped ==
    /\ (IsCls("RemoveMinVariance") /\ DefaultThresholds /\ last = "apply_train") =>
          \A n \in Range(cat_names) :
              SingleValued(df_in[n]) =>
                  /\ err = "none"
                  /\ n \in Range(fitted.cols_to_drop)
                  /\ n \notin DOMAIN df
    /\ (IsCls("RemoveMinVariance") /\ ~Unfit /\ last = "apply_test") =>
          \A n \in Range(fitted.cols_to_drop) : n \notin DOMAIN df

\* C7: no name is in both cat_names and cont_names
NamesDisjoint == Range(cat_names) \cap Range(cont_names) = {}

\* C8: once created, the fitted state is never replaced or re-created
FittedCreatedOnce == [][~Unfit => fitted' = fitted]_vars

\* what C9 says of one call of FillMissing (a step of the state machine): the
\* continuous columns without a missing value in the train split are left
\* as they were, get no indicator column, and their indicator name is not
\* added to cat_names
LeftAloneStep ==
    \A name \in Range(cont_names) \ train_na' :
        /\ Untouched(name)'
        /\ na_name(name) \in DOMAIN df' => na_name(name) \in DOMAIN df_in'
        /\ na_name(name) \in Range(cat_names') => na_name(name) \in Range(cat_names)

\* C9: a continuous column without a missing value in the train split is
\* left as it was by FillMissing.apply_train and by apply_test after it; no
\* indicator column is added for it and its indicator name is not registered
FillAsymmetry ==
    [][/\ (IsCls("FillMissing") /\ Returned("apply_train")') => LeftAloneStep
       /\ (IsCls("FillMissing") /\ Returned("apply_test")' /\ ~Unfit /\ train_err = "none")
             => LeftAloneStep]_vars

\* C2: after a fit, RemoveMinVariance.apply_test never raises and removes
\* from the split exactly the columns recorded in cols_to_drop, leaving the
\* other columns as they were
DropListSymmetry ==
    (IsCls("RemoveMinVariance") /\ ~Unfit /\ last = "apply_test") =>
        /\ err = "none"
        /\ DOMAIN df = (DOMAIN df_in) \ Range(fitted.cols_to_drop)
        /\ \A c \in DOMAIN df : Untouched(c)

\* the variance of a column is below min_var
BelowMinVar(col) == ~isnull(var(col)) /\ RLess(var(col), proc.min_var)

\* C2, its case: apply_test keeps a column whose variance in the split is
\* below the threshold and removes one whose variance there is not
DropListSymmetryWitness ==
    /\ IsCls("RemoveMinVariance") /\ ~Unfit /\ Returned("apply_test")
    /\ \E a \in Range(cont_names) \cap DOMAIN df : BelowMinVar(df_in[a])
    /\ \E b \in Range(cont_names) \ DOMAIN df :
          ~isnull(var(df_in[b])) /\ ~BelowMinVar(df_in[b])

\* C6: apply_test leaves the fitted state as it found it
FittedReadOnlyInApply == [][last' = "apply_test" => fitted' = fitted]_vars

\* C6, its case: an apply_test has returned on a fit instance of each kind
\* of fitted state that holds something
FittedReadOnlyWitness ==
    /\ Returned("apply_test") /\ ~Unfit
    /\ \/ IsCls("FillMissing") /\ fitted.na_dict # <<>> /\ df # df_in
       \/ IsCls("RemoveMinVariance") /\ fitted.cols_to_drop # <<>>

\* C8 as amended: the fitted state is absent until the first apply_train,
\* present after every apply_train, and changed by no call but an apply_train
FittedLifecycle ==
    /\ [](last = "init" => Unfit)
    /\ [][/\ last' = "apply_train" => ~Unfit'
          /\ fitted' # fitted => last' = "apply_train"]_vars

\* C8, its case: a second apply_train has replaced the state the first stored
FittedLifecycleWitness ==
    /\ Returned("apply_train") /\ was_fit /\ ~Unfit
    /\ IsCls("Normalize")
    /\ \E n \in Range(cont_names) : ~isnull(fitted.stds[n])

\* C10: after a fit, Categorify.apply_test never raises; it keeps the values
\* of the stored vocabulary and makes every other value the missing category,
\* types each categorical column on the stored vocabulary, and leaves the
\* continuous columns as they were.  The vocabulary stored by apply_train is
\* the distinct non-missing values of the train column in ascending order.
CategorifyApply ==
    /\ (IsCls("Categorify") /\ ~Unfit /\ last = "apply_test") =>
          /\ err = "none"
          /\ \A n \in Range(cat_names) :
                /\ Rewritten(n, [x \in Range(df_in[n]) |->
                                   IF x \in Range(fitted.categories[n])
                                   THEN x ELSE NaN])
                /\ n \in DOMAIN dtype /\ dtype[n] = fitted.categories[n]
          /\ \A c \in Range(cont_names) : Untouched(c) /\ c \notin DOMAIN dtype
    /\ (IsCls("Categorify") /\ last = "apply_train") =>
          \A n \in Range(cat_names) :
             LET cats == fitted.categories[n] IN
                /\ Range(cats) = {x \in Range(df_in[n]) : ~isnull(x)}
                /\ \A i \in 1..(Len(cats) - 1) : RLess(cats[i], cats[i + 1])

\* C10, its case: apply_test met a value outside the stored vocabulary next
\* to one inside it, with a continuous column in the split
CategorifyApplyWitness ==
    /\ IsCls("Categorify") /\ ~Unfit /\ Returned("apply_test")
    /\ cont_names # <<>>
    /\ \E n \in Range(cat_names) :
          /\ \E i \in DOMAIN df_in[n] : ~isnull(df_in[n][i]) /\ isnull(df[n][i])
          /\ \E i \in DOMAIN df_in[n] : ~isnull(df[n][i])

-----------------------------------------------------------------------------
(* FillMissing: degenerate statistics, indicator columns, alignment *)

\* every row of the column is missing
AllMissing(col) == \A i \in DOMAIN col : isnull(col[i])

\* C11: FillMissing.apply_train with the MEDIAN or the COMMON strategy raises
\* when a continuous column of the train split is missing in every row, and
\* never returns with a missing fill value stored in na_dict
DegenerateStatisticsRaise ==
    (IsCls("FillMissing") /\ last = "apply_train"
        /\ proc.fill_strategy \in {"MEDIAN", "COMMON"}) =>
        /\ (\E name \in Range(cont_names) : AllMissing(df_in[name])) => err # "none"
        /\ err = "none" =>
              \A name \in DOMAIN fitted.na_dict : ~isnull(fitted.na_dict[name])

NoDuplicates(names) == Cardinality(Range(names)) = Len(names)

IsPrefix(s, t) == Len(s) <= Len(t) /\ SubSeq(t, 1, Len(s)) = s

\* C15: cat_names never holds a name twice, and a FillMissing call only
\* appends to it: the names it held keep their places
IndicatorRegisteredOnce ==
    /\ [](IsCls("FillMissing") => NoDuplicates(cat_names))
    /\ [][IsCls("FillMissing") => IsPrefix(cat_names, cat_names')]_vars

\* C15, its case: an apply_test with add_col came upon the indicator name an
\* earlier call had appended to cat_names
IndicatorRegisteredOnceWitness ==
    /\ IsCls("FillMissing") /\ Returned("apply_test") /\ was_fit
    /\ proc.add_col
    /\ \E name \in DOMAIN fitted.na_dict :
          /\ na_name(name) \in Range(cat_names)
          /\ na_name(name) \notin Range(ctor.cat_names)

\* the indicator of a column: true exactly at its missing rows
Indicator(col) == [i \in DOMAIN col |-> Bool(isnull(col[i]))]

\* C17: with add_col, after a FillMissing call the column '<name>_na' of
\* every column recorded in na_dict is the indicator of that column as it was
\* in the same DataFrame before the call; without add_col no column is added
\* and cat_names stays as constructed
IndicatorFromOwnSplit ==
    (IsCls("FillMissing") /\ last \in {"apply_train", "apply_test"}
        /\ err = "none" /\ ~Unfit) =>
        IF proc.add_col
        THEN \A name \in Range(cont_names) \cap DOMAIN fitted.na_dict :
                /\ na_name(name) \in DOMAIN df
                /\ df[na_name(name)] = Indicator(df_in[name])
        ELSE DOMAIN df = DOMAIN df_in /\ cat_names = ctor.cat_names

\* C17, its case: apply_test wrote an indicator without a true row for a
\* column that was recorded in na_dict, so had a missing value in train
IndicatorFromOwnSplitWitness ==
    /\ IsCls("FillMissing") /\ Returned("apply_test") /\ was_fit
    /\ proc.add_col
    /\ \E name \in Range(cont_names) \cap DOMAIN fitted.na_dict :
          /\ name \in train_na
          /\ ~has_null(df_in[name])
          /\ df[na_name(name)] = Indicator(df_in[name])

\* the last apply_train returned, on a split that had every name of
\* cat_names and cont_names as a column, and the split of the last call has
\* the columns that train split had
AlignedBefore ==
    /\ DOMAIN train_split # {}
    /\ train_err = "none"
    /\ train_split.before = DOMAIN df_in
    /\ train_split.named

\* C18: after FillMissing.apply_train on a train split and apply_test on a
\* split with the same columns, both have the same columns again and every
\* name of cat_names is a column of both
SplitsAligned ==
    (IsCls("FillMissing") /\ Returned("apply_test") /\ AlignedBefore) =>
        /\ DOMAIN df = train_split.after
        /\ Range(cat_names) \subseteq DOMAIN df

\* C18, its case: apply_test added the indicator column of a column in which
\* the split had no missing value
SplitsAlignedWitness ==
    /\ IsCls("FillMissing") /\ Returned("apply_test") /\ AlignedBefore
    /\ \E name \in DOMAIN fitted.na_dict :
          /\ ~has_null(df_in[name])
          /\ na_name(name) \notin DOMAIN df_in
          /\ na_name(name) \in DOMAIN df

-----------------------------------------------------------------------------
(* TabularProc.__call__ *)

\* the step has the effect that outcome r of a path has on the DataFrame and
\* on the instance
EffectOf(r) ==
    /\ df' = r.df
    /\ dtype' = r.dtype
    /\ cat_names' = r.cat_names
    /\ fitted' = r.fitted
    /\ err' = r.err

\* C16: __call__(df, test) enters apply_test when test is true and apply_train
\* when it is false, and nothing else but what that path calls; the call has
\* the effect of that path; on the base class, which overrides neither, the
\* apply-only path enters apply_train, has the effect of apply_train, and
\* apply_train raises NotImplementedError
ModeDispatch ==
    /\ [](/\ (calls # <<>> /\ calls[1] = call_entry(TRUE)) =>
                Tail(calls) = IF IsCls("TabularProc")
                              THEN <<"apply_test", "apply_train">>
                              ELSE <<"apply_test">>
          /\ (calls # <<>> /\ calls[1] = call_entry(FALSE)) =>
                Tail(calls) = <<"apply_train">>
          /\ (IsCls("TabularProc") /\ last # "init") =>
                err = "NotImplementedError" /\ df = df_in /\ Unfit)
    /\ [][/\ calls'[1] = call_entry(TRUE) =>
                \E r \in apply_test(proc, fitted, cat_names, cont_names, df_in') :
                   EffectOf(r)
          /\ (calls'[1] = call_entry(FALSE)
                \/ (calls'[1] = call_entry(TRUE) /\ IsCls("TabularProc"))) =>
                \E r \in apply_train(proc, fitted, cat_names, cont_names, df_in') :
                   EffectOf(r)]_vars

\* C16, its case: __call__ with test true on a base-class instance went through
\* apply_test into apply_train, which raised
ModeDispatchWitness ==
    /\ IsCls("TabularProc")
    /\ calls = <<call_entry(TRUE), "apply_test", "apply_train">>
    /\ err = "NotImplementedError"
    /\ DOMAIN df_in # {}

-----------------------------------------------------------------------------
(* RemoveMinVariance: verbosity, sub-sampling, the categorical condition *)

\* the instance with the other value of verbose
Twin == [proc EXCEPT !.verbose = ~@]

\* C12: the instance that differs only in verbose gets from apply_train on
\* the same split the same cols_to_drop, the same columns left and the same
\* exception if any, and from apply_test the same columns left
VerbosityNeutral ==
    /\ (IsCls("RemoveMinVariance") /\ last = "apply_train") =>
          \A r \in RemoveMinVariance_apply_train(Twin, cat_names,
                                                 cont_names, df_in) :
             r.fitted = fitted /\ r.df = df /\ r.err = err
    /\ (IsCls("RemoveMinVariance") /\ last = "apply_test") =>
          \A r \in RemoveMinVariance_apply_test(Twin, fitted, cat_names,
                                                cont_names, df_in) :
             r.fitted = fitted /\ r.df = df /\ r.err = err

\* C12, its case: a silent instance dropped a continuous and a categorical
\* column, for each of which its twin prints a line
VerbosityNeutralWitness ==
    /\ IsCls("RemoveMinVariance") /\ Returned("apply_train")
    /\ ~proc.verbose /\ stdout = <<>>
    /\ Range(fitted.cols_to_drop) \cap Range(cont_names) # {}
    /\ Range(fitted.cols_to_drop) \cap Range(cat_names) # {}
    /\ \E r \in RemoveMinVariance_apply_train(Twin, cat_names,
                                              cont_names, df_in) :
          Len(r.out) = 2

\* int(len(col) * check_sample)
SampleSize(col, ratio) == (Len(col) * ratio.num) \div ratio.den

\* Series.sample(k): the columns made of k of the rows
Samples(col, k) ==
    {[i \in 1..k |-> col[rows[i]]] :
        rows \in {f \in [1..k -> DOMAIN col] : \A i \in 1..(k - 1) : f[i] < f[i + 1]}}

\* C13: with check_sample below 1, apply_train returns without raising and
\* cols_to_drop holds a continuous column exactly when the variance of a
\* sub-sample of int(rows * check_sample) of its rows is below min_var
SubSampleVariance ==
    (IsCls("RemoveMinVariance") /\ last = "apply_train"
        /\ RLess(proc.check_sample, Num(1, 1))) =>
        /\ err = "none"
        /\ \A n \in Range(cont_names) :
              \E col \in Samples(df_in[n], SampleSize(df_in[n], proc.check_sample)) :
                 (proc.remove_cols /\ ~isnull(var(col)) /\ RLess(var(col), proc.min_var))
                    <=> n \in Range(fitted.cols_to_drop)

\* the frequency ratio of a column is above cut/1: infinite with one value
\* that is not missing, else the difference of the two highest relative
\* frequencies among the rows that are not missing
FreqRatioAbove(col, cut) ==
    LET s == dropna(col)
        vals == Range(s)
    IN  \/ Cardinality(vals) = 1
        \/ \E top \in vals : \E second \in vals \ {top} :
              /\ \A w \in vals : Count(s, w) <= Count(s, top)
              /\ \A w \in vals \ {top} : Count(s, w) <= Count(s, second)
              /\ (Count(s, top) - Count(s, second)) * cut.den > cut.num * Len(s)

\* the percentage of distinct values among the rows (a missing value counts
\* as one value) is below cut
UniqPercentBelow(col, cut) ==
    Cardinality(Range(col)) * 100 * cut.den < cut.num * Len(col)

====
